---------------------------- MODULE Spec2Model ----------------------------
(***************************************************************************)
(* A model of skills/summarize/scripts/extract_youtube_transcript.py.      *)
(*                                                                         *)
(* Representation.                                                          *)
(*  - A Python value is a tagged record: [t |-> "none"], [t |-> "int", v], *)
(*    [t |-> "str", v] (v a sequence of one-character strings),            *)
(*    [t |-> "list", v] (v a sequence of values), [t |-> "dict", v] (v a   *)
(*    function from key names to values).  A raised exception is the       *)
(*    pseudo-value [t |-> "raise", e |-> <exception class>]: an operator   *)
(*    that models a Python function returns it where the function raises.  *)
(*  - A text that json.loads is applied to is represented by the value it  *)
(*    denotes, or by [t |-> "notjson"] when it is not JSON.               *)
(*  - A page text scanned character by character is a sequence of symbols; *)
(*    a symbol is one character, or one of the marker words, which the     *)
(*    scanner treats as ordinary characters.                               *)
(*                                                                         *)
(* Specifications.                                                          *)
(*  - Spec: a run of main(), from the parsed command line to the exit.     *)
(*    The network is the environment: each request gets a transport error  *)
(*    or a response body, chosen from a list of bodies per endpoint.       *)
(*  - SpecParse, SpecScan, SpecVid, SpecRank: one application of a pure    *)
(*    function (the decoders, the embedded-state extractor, the video      *)
(*    identifier resolver, the track catalog) to an input drawn in Init.   *)
(*  - SpecTrack: one call of download_caption_track, with the track        *)
(*    address and the replies to its two requests drawn in Init.           *)
(***************************************************************************)
EXTENDS Integers, Sequences, FiniteSets, TLC

VARIABLES
    pc,          \* position of main(): "idle" outside a run
    args,        \* parsed command line: url, timeout, mode
    video_id,    \* main: video_id
    html,        \* main: html (the watch page)
    title,       \* main: title
    segments,    \* main: segments
    source,      \* main: source
    tracks,      \* ranked caption tracks of the running strategy
    idx,         \* index of the next track to download
    tried,       \* strategies entered so far, in order
    calls,       \* network calls issued so far, in order
    stdout,      \* lines written to standard output
    stderr,      \* lines written to the error stream
    exit_code,   \* process exit status, -1 while running
    escaped,     \* exception that left main uncaught, or "none"
    fn,          \* pure-function specifications: the function applied
    arg,         \* its input
    ret          \* its result

vars == <<pc, args, video_id, html, title, segments, source, tracks, idx,
          tried, calls, stdout, stderr, exit_code, escaped, fn, arg, ret>>

mainvars == <<pc, args, video_id, html, title, segments, source, tracks, idx,
              tried, calls, stdout, stderr, exit_code, escaped>>

-----------------------------------------------------------------------------
(* Python values *)

PyNone == [t |-> "none"]
PyInt(n) == [t |-> "int", v |-> n]
PyStr(s) == [t |-> "str", v |-> s]
PyList(s) == [t |-> "list", v |-> s]
PyDict(f) == [t |-> "dict", v |-> f]
Raise(e) == [t |-> "raise", e |-> e]
NotJson == [t |-> "notjson"]

EmptyDict == PyDict([k \in {} |-> PyNone])
EmptyList == PyList(<<>>)
EmptyStr == PyStr(<<>>)

IsRaise(x) == x.t = "raise"
IsNone(x) == x.t = "none"

\* bool(x)
Truthy(x) ==
    CASE x.t = "none" -> FALSE
      [] x.t = "int" -> x.v # 0
      [] x.t = "str" -> Len(x.v) > 0
      [] x.t = "list" -> Len(x.v) > 0
      [] x.t = "dict" -> DOMAIN x.v # {}
      [] OTHER -> TRUE

\* o.get(k, d): only a dict has .get; a raise in o propagates.
Get(o, k, d) ==
    IF IsRaise(o) THEN o
    ELSE IF o.t = "dict" THEN (IF k \in DOMAIN o.v THEN o.v[k] ELSE d)
    ELSE Raise("AttributeError")

\* The sequence `for x in o` walks: the items of a list, the characters of a
\* string, the keys of a dict (strings; their content is never looked at).
Iter(o) ==
    CASE o.t = "list" -> PyList(o.v)
      [] o.t = "str" -> PyList([i \in 1..Len(o.v) |-> PyStr(<<o.v[i]>>)])
      [] o.t = "dict" -> PyList([i \in 1..Cardinality(DOMAIN o.v) |-> PyStr(<<"k">>)])
      [] o.t = "raise" -> o
      [] OTHER -> Raise("TypeError")

\* o[0] for a truthy o
Index0(o) ==
    CASE o.t = "list" -> o.v[1]
      [] o.t = "str" -> PyStr(<<o.v[1]>>)
      [] o.t = "dict" -> Raise("KeyError")
      [] o.t = "raise" -> o
      [] OTHER -> Raise("TypeError")

-----------------------------------------------------------------------------
(* Strings *)

IsSpace(c) == c \in {" ", "\n"}

RECURSIVE LStrip(_)
LStrip(s) == IF s # <<>> /\ IsSpace(Head(s)) THEN LStrip(Tail(s)) ELSE s

RECURSIVE RStrip(_)
RStrip(s) ==
    IF s # <<>> /\ IsSpace(s[Len(s)]) THEN RStrip(SubSeq(s, 1, Len(s) - 1)) ELSE s

\* str.strip()
Strip(s) == RStrip(LStrip(s))

\* re.sub(r"\s+", " ", s)
RECURSIVE CollapseWs(_)
CollapseWs(s) ==
    IF s = <<>> THEN <<>>
    ELSE IF IsSpace(Head(s)) THEN <<" ">> \o CollapseWs(LStrip(s))
    ELSE <<Head(s)>> \o CollapseWs(Tail(s))

Digits == <<"0", "1", "2", "3", "4", "5", "6", "7", "8", "9">>
IsDigit(c) == \E d \in 1..10 : Digits[d] = c
DigitVal(c) == (CHOOSE d \in 1..10 : Digits[d] = c) - 1

RECURSIVE DigitsVal(_, _)
DigitsVal(s, acc) ==
    IF s = <<>> THEN acc ELSE DigitsVal(Tail(s), 10 * acc + DigitVal(Head(s)))

\* int(<str>): surrounding whitespace, an optional sign, decimal digits.
IntOfStr(s) ==
    LET b == Strip(s)
        signed == b # <<>> /\ Head(b) \in {"-", "+"}
        d == IF signed THEN Tail(b) ELSE b
    IN  IF d # <<>> /\ \A i \in 1..Len(d) : IsDigit(d[i])
        THEN PyInt(IF signed /\ Head(b) = "-" THEN 0 - DigitsVal(d, 0) ELSE DigitsVal(d, 0))
        ELSE Raise("ValueError")

\* int(x)
IntOf(x) ==
    CASE x.t = "int" -> x
      [] x.t = "str" -> IntOfStr(x.v)
      [] x.t = "raise" -> x
      [] OTHER -> Raise("TypeError")

\* "".join(parts): every part must be a str
RECURSIVE Join(_)
Join(parts) ==
    IF parts = <<>> THEN EmptyStr
    ELSE IF Head(parts).t # "str" THEN Raise("TypeError")
    ELSE LET rest == Join(Tail(parts))
         IN  IF IsRaise(rest) THEN rest ELSE PyStr(Head(parts).v \o rest.v)

\* json.loads(text)
json_loads(text) == IF text.json.t = "notjson" THEN Raise("JSONDecodeError") ELSE text.json


-----------------------------------------------------------------------------
(* Format parsers *)

Skip == [t |-> "skip"]
Seg(s) == [t |-> "seg", v |-> s]

\* A segment dict: "text" always, "start_ms" and "end_ms" when set.
Segment1(text) == [text |-> text]
Segment2(text, start) == [text |-> text, start_ms |-> start]
Segment3(text, start, end) == [text |-> text, start_ms |-> start, end_ms |-> end]

\* parse_json3_transcript, lines 215-218: the truthy utf8 values of segs, in order
RECURSIVE json3_text_parts(_)
json3_text_parts(segs) ==
    IF segs = <<>> THEN PyList(<<>>)
    ELSE LET utf8 == Get(Head(segs), "utf8", EmptyStr)
         IN  IF IsRaise(utf8) THEN utf8
             ELSE LET rest == json3_text_parts(Tail(segs))
                  IN  IF IsRaise(rest) THEN rest
                      ELSE IF Truthy(utf8) THEN PyList(<<utf8>> \o rest.v)
                      ELSE rest

\* parse_json3_transcript, lines 223-230: the segment of an event with text
json3_segment(event, text) ==
    LET start_ms == Get(event, "tStartMs", PyNone)
        duration_ms == Get(event, "dDurationMs", PyNone)
        norm == Strip(CollapseWs(text))
    IN  IF IsNone(start_ms) THEN Seg(Segment1(norm))
        ELSE LET s == IntOf(start_ms)
             IN  IF IsRaise(s) THEN s
                 ELSE IF IsNone(duration_ms) THEN Seg(Segment2(norm, s.v))
                 ELSE LET d == IntOf(duration_ms)
                      IN  IF IsRaise(d) THEN d
                          ELSE Seg(Segment3(norm, s.v, s.v + d.v))

\* parse_json3_transcript, lines 211-230: one iteration of the event loop
json3_event(event) ==
    LET segs == Get(event, "segs", PyNone)
    IN  IF IsRaise(segs) THEN segs
        ELSE IF ~Truthy(segs) THEN Skip
        ELSE LET it == Iter(segs)
             IN  IF IsRaise(it) THEN it
                 ELSE LET parts == json3_text_parts(it.v)
                      IN  IF IsRaise(parts) THEN parts
                          ELSE LET joined == Join(parts.v)
                               IN  IF IsRaise(joined) THEN joined
                                   ELSE IF Strip(joined.v) = <<>> THEN Skip
                                   ELSE json3_segment(event, Strip(joined.v))

\* the event loop: the segments appended so far, or the first exception
RECURSIVE json3_events(_, _)
json3_events(events, acc) ==
    IF events = <<>> THEN PyList(acc)
    ELSE LET r == json3_event(Head(events))
         IN  IF IsRaise(r) THEN r
             ELSE json3_events(Tail(events), IF r.t = "seg" THEN Append(acc, r.v) ELSE acc)

parse_json3_transcript(text) ==
    LET data == json_loads(text)
    IN  IF IsRaise(data) THEN PyNone
        ELSE LET events == Get(data, "events", EmptyList)
             IN  IF IsRaise(events) THEN events
                 ELSE IF ~Truthy(events) THEN PyNone
                 ELSE LET it == Iter(events)
                      IN  IF IsRaise(it) THEN it
                          ELSE LET r == json3_events(it.v, <<>>)
                               IN  IF IsRaise(r) THEN r
                                   ELSE IF r.v # <<>> THEN r ELSE PyNone

\* html.unescape on a body: the entity &amp; is one symbol of the body
unescape(s) == [i \in 1..Len(s) |-> IF s[i] = "&amp;" THEN "&" ELSE s[i]]

\* int(float(lit) * 1000) for the attribute literals of the model
float_ms(lit) ==
    CASE lit = "1.5" -> PyInt(1500)
      [] lit = "2.0" -> PyInt(2000)
      [] lit = "0" -> PyInt(0)
      [] lit = "-1.5" -> PyInt(-1500)
      [] lit = "-2" -> PyInt(-2000)
      [] lit = "nan" -> Raise("ValueError")
      [] lit = "inf" -> Raise("OverflowError")
      [] OTHER -> Raise("ValueError")

\* parse_xml_transcript, lines 243-265: one <text ...>body</text> match.
\* el.start and el.dur are the literals the attribute patterns capture in
\* the element, "absent" when the pattern finds none.
xml_element(el) ==
    LET text == CollapseWs(Strip(unescape(el.body)))
    IN  IF text = <<>> THEN Skip
        ELSE LET s == IF el.start = "absent" THEN Raise("ValueError") ELSE float_ms(el.start)
             IN  IF IsRaise(s) /\ s.e # "ValueError" THEN s
                 ELSE IF IsRaise(s) \/ el.dur = "absent" THEN
                      (IF IsRaise(s) THEN Seg(Segment1(text)) ELSE Seg(Segment2(text, s.v)))
                 ELSE LET d == float_ms(el.dur)
                      IN  IF IsRaise(d) /\ d.e # "ValueError" THEN d
                          ELSE IF IsRaise(d) THEN Seg(Segment2(text, s.v))
                          ELSE Seg(Segment3(text, s.v, s.v + d.v))

RECURSIVE xml_elements(_, _)
xml_elements(els, acc) ==
    IF els = <<>> THEN PyList(acc)
    ELSE IF Head(els).kind # "text" THEN xml_elements(Tail(els), acc)
    ELSE LET r == xml_element(Head(els))
         IN  IF IsRaise(r) THEN r
             ELSE xml_elements(Tail(els), IF r.t = "seg" THEN Append(acc, r.v) ELSE acc)

\* text.xml: the text as the element pattern sees it, a sequence of
\* <text> elements and of stretches that match nothing
parse_xml_transcript(text) ==
    LET r == xml_elements(text.xml, <<>>)
    IN  IF IsRaise(r) THEN r
        ELSE IF r.v # <<>> THEN r ELSE PyNone


\* parse_youtubei_response, line 365: the "text" of every run, in order
RECURSIVE youtubei_run_texts(_)
youtubei_run_texts(runs) ==
    IF runs = <<>> THEN PyList(<<>>)
    ELSE LET x == Get(Head(runs), "text", EmptyStr)
         IN  IF IsRaise(x) THEN x
             ELSE LET rest == youtubei_run_texts(Tail(runs))
                  IN  IF IsRaise(rest) THEN rest ELSE PyList(<<x>> \o rest.v)

\* parse_youtubei_response, lines 369-379: offsets are set inside
\* try/except (ValueError, TypeError), so a start offset already set stays.
youtubei_segment(seg_renderer, text) ==
    LET norm == Strip(CollapseWs(text))
        start_ms == Get(seg_renderer, "startMs", PyNone)
        duration_ms == Get(seg_renderer, "durationMs", PyNone)
    IN  IF IsNone(start_ms) THEN Seg(Segment1(norm))
        ELSE LET s == IntOf(start_ms)
             IN  IF IsRaise(s) THEN Seg(Segment1(norm))
                 ELSE IF IsNone(duration_ms) THEN Seg(Segment2(norm, s.v))
                 ELSE LET d == IntOf(duration_ms)
                      IN  IF IsRaise(d) THEN Seg(Segment2(norm, s.v))
                          ELSE Seg(Segment3(norm, s.v, s.v + d.v))

\* parse_youtubei_response, lines 362-379: one iteration of the loop
youtubei_item(seg) ==
    LET seg_renderer == Get(seg, "transcriptSegmentRenderer", EmptyDict)
        snippet == Get(seg_renderer, "snippet", EmptyDict)
        runs == Get(snippet, "runs", EmptyList)
        it == Iter(runs)
    IN  IF IsRaise(it) THEN it
        ELSE LET parts == youtubei_run_texts(it.v)
             IN  IF IsRaise(parts) THEN parts
                 ELSE LET joined == Join(parts.v)
                      IN  IF IsRaise(joined) THEN joined
                          ELSE IF Strip(joined.v) = <<>> THEN Skip
                          ELSE youtubei_segment(seg_renderer, Strip(joined.v))

RECURSIVE youtubei_items(_, _)
youtubei_items(items, acc) ==
    IF items = <<>> THEN PyList(acc)
    ELSE LET r == youtubei_item(Head(items))
         IN  IF IsRaise(r) THEN r
             ELSE youtubei_items(Tail(items), IF r.t = "seg" THEN Append(acc, r.v) ELSE acc)

\* parse_youtubei_response, lines 344-381: the body of the try
youtubei_body(data) ==
    LET actions == Get(data, "actions", EmptyList)
    IN  IF IsRaise(actions) THEN actions
        ELSE IF ~Truthy(actions) THEN PyNone
        ELSE LET panel == Get(Index0(actions), "updateEngagementPanelAction", EmptyDict)
                 content == Get(panel, "content", EmptyDict)
                 renderer == Get(content, "transcriptRenderer", EmptyDict)
                 body_content == Get(renderer, "content", EmptyDict)
                 search_panel == Get(body_content, "transcriptSearchPanelRenderer", EmptyDict)
                 body == Get(search_panel, "body", EmptyDict)
                 segment_list == Get(body, "transcriptSegmentListRenderer", EmptyDict)
                 initial_segments == Get(segment_list, "initialSegments", EmptyList)
             IN  IF IsRaise(initial_segments) THEN initial_segments
                 ELSE IF ~Truthy(initial_segments) THEN PyNone
                 ELSE LET it == Iter(initial_segments)
                      IN  IF IsRaise(it) THEN it
                          ELSE LET r == youtubei_items(it.v, <<>>)
                               IN  IF IsRaise(r) THEN r
                                   ELSE IF r.v # <<>> THEN r ELSE PyNone

\* the exception classes parse_youtubei_response catches (line 382)
youtubei_caught == {"KeyError", "IndexError", "TypeError"}

parse_youtubei_response(data) ==
    LET r == youtubei_body(data)
    IN  IF IsRaise(r) /\ r.e \in youtubei_caught THEN PyNone ELSE r


-----------------------------------------------------------------------------
(* Embedded-state extractor.  A page text is a sequence of characters;     *)
(* positions are Python's, from 0.                                         *)

At(text, i) == text[i + 1]

\* text.find(pat, from)
FindSub(text, pat, from) ==
    LET hits == {i \in from..(Len(text) - Len(pat)) :
                    \A k \in 1..Len(pat) : text[i + k] = pat[k]}
    IN  IF from < 0 \/ hits = {} THEN -1 ELSE CHOOSE i \in hits : \A j \in hits : i <= j

\* extract_balanced_json, lines 102-120: one character of the loop; `done`
\* is the return inside the loop
scan_char(ch, depth, in_string, escaping) ==
    CASE in_string /\ escaping ->
            [depth |-> depth, in_string |-> TRUE, escaping |-> FALSE, done |-> FALSE]
      [] in_string /\ ~escaping /\ ch = "\\" ->
            [depth |-> depth, in_string |-> TRUE, escaping |-> TRUE, done |-> FALSE]
      [] in_string /\ ~escaping /\ ch \in {"\"", "'"} ->
            [depth |-> depth, in_string |-> FALSE, escaping |-> FALSE, done |-> FALSE]
      [] in_string /\ ~escaping /\ ch \notin {"\\", "\"", "'"} ->
            [depth |-> depth, in_string |-> TRUE, escaping |-> FALSE, done |-> FALSE]
      [] ~in_string /\ ch \in {"\"", "'"} ->
            [depth |-> depth, in_string |-> TRUE, escaping |-> escaping, done |-> FALSE]
      [] ~in_string /\ ch = "{" ->
            [depth |-> depth + 1, in_string |-> FALSE, escaping |-> escaping, done |-> FALSE]
      [] ~in_string /\ ch = "}" ->
            [depth |-> depth - 1, in_string |-> FALSE, escaping |-> escaping,
             done |-> depth - 1 = 0]
      [] ~in_string /\ ch \notin {"\"", "'", "{", "}"} ->
            [depth |-> depth, in_string |-> FALSE, escaping |-> escaping, done |-> FALSE]

\* extract_balanced_json, lines 101-122: the loop from position i
RECURSIVE balanced_scan(_, _, _, _, _, _)
balanced_scan(text, start, i, depth, in_string, escaping) ==
    IF i >= Len(text) THEN PyNone
    ELSE LET st == scan_char(At(text, i), depth, in_string, escaping)
         IN  IF st.done THEN PyStr(SubSeq(text, start + 1, i + 1))
             ELSE balanced_scan(text, start, i + 1, st.depth, st.in_string, st.escaping)

extract_balanced_json(text, start_at) ==
    LET start == FindSub(text, <<"{">>, start_at)
    IN  IF start < 0 THEN PyNone
        ELSE balanced_scan(text, start, start, 0, FALSE, FALSE)

(* json.loads on a character sequence: a recogniser of the JSON grammar.   *)
(* Positions here are 1-based; 0 means "no parse".                         *)

JsonWs == {" ", "\n", "\t", "\r"}

RECURSIVE json_ws(_, _)
json_ws(s, i) == IF i <= Len(s) /\ s[i] \in JsonWs THEN json_ws(s, i + 1) ELSE i

HexDigits == {"0", "1", "2", "3", "4", "5", "6", "7", "8", "9",
              "a", "b", "c", "d", "e", "f", "A", "B", "C", "D", "E", "F"}

\* the position after the string's closing quote; i is after the opening one
RECURSIVE json_string_end(_, _)
json_string_end(s, i) ==
    IF i > Len(s) THEN 0
    ELSE IF s[i] = "\"" THEN i + 1
    ELSE IF s[i] \in {"\n", "\t", "\r"} THEN 0
    ELSE IF s[i] = "\\" THEN
         IF i + 1 > Len(s) THEN 0
         ELSE IF s[i + 1] \in {"\"", "\\", "/", "b", "f", "n", "r", "t"}
              THEN json_string_end(s, i + 2)
         ELSE IF s[i + 1] = "u" /\ i + 5 <= Len(s)
                 /\ \A k \in 2..5 : s[i + k] \in HexDigits
              THEN json_string_end(s, i + 6)
         ELSE 0
    ELSE json_string_end(s, i + 1)

RECURSIVE json_digits(_, _)
json_digits(s, i) == IF i <= Len(s) /\ IsDigit(s[i]) THEN json_digits(s, i + 1) ELSE i

\* -?(0|[1-9]\d*)(\.\d+)?([eE][+-]?\d+)?
json_number(s, i) ==
    LET a == IF i <= Len(s) /\ s[i] = "-" THEN i + 1 ELSE i
        b == IF a > Len(s) \/ ~IsDigit(s[a]) THEN 0
             ELSE IF s[a] = "0" THEN a + 1 ELSE json_digits(s, a)
        c == IF b # 0 /\ b + 1 <= Len(s) /\ s[b] = "." /\ IsDigit(s[b + 1])
             THEN json_digits(s, b + 1) ELSE b
        e == IF c # 0 /\ c <= Len(s) /\ s[c] \in {"e", "E"} THEN
                 LET f == IF c + 1 <= Len(s) /\ s[c + 1] \in {"+", "-"} THEN c + 2 ELSE c + 1
                 IN  IF f <= Len(s) /\ IsDigit(s[f]) THEN json_digits(s, f) ELSE c
             ELSE c
    IN  e

JsonWords == <<<<"t", "r", "u", "e">>, <<"f", "a", "l", "s", "e">>, <<"n", "u", "l", "l">>,
               <<"N", "a", "N">>, <<"I", "n", "f", "i", "n", "i", "t", "y">>,
               <<"-", "I", "n", "f", "i", "n", "i", "t", "y">>>>

json_word(s, i) ==
    LET fit == {w \in 1..Len(JsonWords) :
                   /\ i + Len(JsonWords[w]) - 1 <= Len(s)
                   /\ \A k \in 1..Len(JsonWords[w]) : s[i + k - 1] = JsonWords[w][k]}
    IN  IF fit = {} THEN 0 ELSE i + Len(JsonWords[CHOOSE w \in fit : TRUE])

\* the position after the value that starts at i
RECURSIVE json_value(_, _)
RECURSIVE json_members(_, _)
RECURSIVE json_elements(_, _)
json_value(s, i) ==
    IF i > Len(s) THEN 0
    ELSE IF s[i] = "\"" THEN json_string_end(s, i + 1)
    ELSE IF s[i] = "{" THEN
         LET j == json_ws(s, i + 1)
         IN  IF j <= Len(s) /\ s[j] = "}" THEN j + 1 ELSE json_members(s, j)
    ELSE IF s[i] = "[" THEN
         LET j == json_ws(s, i + 1)
         IN  IF j <= Len(s) /\ s[j] = "]" THEN j + 1 ELSE json_elements(s, j)
    ELSE IF json_word(s, i) # 0 THEN json_word(s, i)
    ELSE json_number(s, i)

\* "key" : value, then "," and more, or "}"; i is at the key's quote
json_members(s, i) ==
    IF i > Len(s) \/ s[i] # "\"" THEN 0
    ELSE LET k == json_string_end(s, i + 1)
             c == IF k = 0 THEN 0 ELSE json_ws(s, k)
         IN  IF c = 0 \/ c > Len(s) \/ s[c] # ":" THEN 0
             ELSE LET v == json_value(s, json_ws(s, c + 1))
                      n == IF v = 0 THEN 0 ELSE json_ws(s, v)
                  IN  IF n = 0 \/ n > Len(s) THEN 0
                      ELSE IF s[n] = "}" THEN n + 1
                      ELSE IF s[n] = "," THEN json_members(s, json_ws(s, n + 1))
                      ELSE 0

json_elements(s, i) ==
    LET v == json_value(s, i)
        n == IF v = 0 THEN 0 ELSE json_ws(s, v)
    IN  IF n = 0 \/ n > Len(s) THEN 0
        ELSE IF s[n] = "]" THEN n + 1
        ELSE IF s[n] = "," THEN json_elements(s, json_ws(s, n + 1))
        ELSE 0

\* json.loads(s) succeeds
json_valid(s) ==
    LET v == json_value(s, json_ws(s, 1))
    IN  v # 0 /\ json_ws(s, v) = Len(s) + 1

\* json.loads(s): the value is represented by the text it was read from
json_loads_text(s) ==
    IF json_valid(s) THEN [t |-> "json", text |-> s] ELSE Raise("JSONDecodeError")

PlayerToken == <<"y", "t", "I", "n", "i", "t", "i", "a", "l", "P", "l", "a", "y", "e", "r", "R", "e", "s", "p", "o", "n", "s", "e">>

extract_initial_player_response(page) ==
    LET i == FindSub(page, PlayerToken, 0)
    IN  IF i < 0 THEN PyNone
        ELSE LET eq_idx == FindSub(page, <<"=">>, i)
             IN  IF eq_idx < 0 THEN PyNone
                 ELSE LET obj_text == extract_balanced_json(page, eq_idx)
                      IN  IF ~Truthy(obj_text) THEN PyNone
                          ELSE LET r == json_loads_text(obj_text.v)
                               IN  IF IsRaise(r) /\ r.e = "JSONDecodeError" THEN PyNone ELSE r

YtcfgWord == <<"y", "t", "c", "f", "g", ".", "s", "e", "t">>

RECURSIVE skip_space(_, _)
skip_space(text, i) ==
    IF i < Len(text) /\ IsSpace(At(text, i)) THEN skip_space(text, i + 1) ELSE i

\* re.match at position i of ytcfg\.set\s*\(\s*\{
ytcfg_match_at(text, i) ==
    /\ i + Len(YtcfgWord) <= Len(text)
    /\ \A k \in 1..Len(YtcfgWord) : text[i + k] = YtcfgWord[k]
    /\ LET p == skip_space(text, i + Len(YtcfgWord))
       IN  /\ p < Len(text) /\ At(text, p) = "("
           /\ LET b == skip_space(text, p + 1)
              IN  b < Len(text) /\ At(text, b) = "{"

\* re.search(...).start(), -1 when there is no match
ytcfg_search(text) ==
    LET hits == {i \in 0..(Len(text) - 1) : ytcfg_match_at(text, i)}
    IN  IF hits = {} THEN -1 ELSE CHOOSE i \in hits : \A j \in hits : i <= j

extract_bootstrap_config(page) ==
    LET m == ytcfg_search(page)
    IN  IF m < 0 THEN PyNone
        ELSE LET first == extract_balanced_json(page, m)
                 brace_start == FindSub(page, <<"{">>, m)
                 obj == IF ~Truthy(first) /\ brace_start >= 0
                        THEN extract_balanced_json(page, brace_start) ELSE first
             IN  IF ~Truthy(obj) THEN PyNone
                 ELSE LET r == json_loads_text(obj.v)
                      IN  IF IsRaise(r) /\ r.e = "JSONDecodeError" THEN PyNone ELSE r

-----------------------------------------------------------------------------
(* Video identifier resolver.  urlparse and parse_qs are the library's: a  *)
(* URL is given by the hostname and path (character sequences) and the     *)
(* query's (name, value) pairs, in order.                                  *)

StartsWith(s, pre) ==
    Len(pre) <= Len(s) /\ \A k \in 1..Len(pre) : s[k] = pre[k]

EndsWith(s, suf) ==
    Len(suf) <= Len(s) /\ \A k \in 1..Len(suf) : s[Len(s) - Len(suf) + k] = suf[k]

\* s.split("/")[0]
FirstPart(s) ==
    LET cut == FindSub(s, <<"/">>, 0)
    IN  IF cut < 0 THEN s ELSE SubSeq(s, 1, cut)

RECURSIVE LStripSlash(_)
LStripSlash(s) == IF s # <<>> /\ Head(s) = "/" THEN LStripSlash(Tail(s)) ELSE s

RECURSIVE RStripSlash(_)
RStripSlash(s) ==
    IF s # <<>> /\ s[Len(s)] = "/" THEN RStripSlash(SubSeq(s, 1, Len(s) - 1)) ELSE s

\* s.strip("/")
StripSlash(s) == RStripSlash(LStripSlash(s))

\* parse_qs(query).get("v", [None])[0]: blank values are dropped
RECURSIVE query_v(_)
query_v(query) ==
    IF query = <<>> THEN PyNone
    ELSE IF Head(query).name = "v" /\ Head(query).value # <<>> THEN PyStr(Head(query).value)
    ELSE query_v(Tail(query))

YoutuBe == <<"y", "o", "u", "t", "u", ".", "b", "e">>
YoutubeCom == <<"y", "o", "u", "t", "u", "b", "e", ".", "c", "o", "m">>
WatchPath == <<"/", "w", "a", "t", "c", "h">>
IdPrefixes == <<<<"/", "s", "h", "o", "r", "t", "s", "/">>, <<"/", "l", "i", "v", "e", "/">>,
                <<"/", "e", "m", "b", "e", "d", "/">>, <<"/", "v", "/">>>>

\* lines 47-50: the first prefix the path starts with decides
RECURSIVE id_after_prefix(_, _)
id_after_prefix(path, k) ==
    IF k > Len(IdPrefixes) THEN PyNone
    ELSE IF StartsWith(path, IdPrefixes[k])
         THEN PyStr(FirstPart(SubSeq(path, Len(IdPrefixes[k]) + 1, Len(path))))
    ELSE id_after_prefix(path, k + 1)

extract_video_id(url) ==
    IF url.host = YoutuBe THEN
        LET first == FirstPart(StripSlash(url.path))
        IN  IF first # <<>> THEN PyStr(first) ELSE PyNone
    ELSE IF FindSub(url.host, YoutubeCom, 0) < 0 THEN PyNone
    ELSE IF url.path = WatchPath THEN query_v(url.query)
    ELSE id_after_prefix(url.path, 1)

-----------------------------------------------------------------------------
(* Caption track catalog *)

Asr == <<"a", "s", "r">>
En == <<"e", "n">>

\* a variant of sort_key that ranks by language before kind
sort_key_language_first(track) ==
    LET kind == Get(track, "kind", EmptyStr)
        lang == Get(track, "languageCode", EmptyStr)
    IN  IF IsRaise(kind) THEN kind
        ELSE IF lang.t # "str" THEN Raise("AttributeError")
        ELSE PyList(<<IF StartsWith(lang.v, En) THEN 0 ELSE 1,
                      IF kind.t = "str" /\ kind.v = Asr THEN 1 ELSE 0>>)

\* sort_key, lines 188-193
sort_key(track) ==
    LET kind == Get(track, "kind", EmptyStr)
        lang == Get(track, "languageCode", EmptyStr)
    IN  IF IsRaise(kind) THEN kind
        ELSE IF lang.t # "str" THEN Raise("AttributeError")
        ELSE PyList(<<IF kind.t = "str" /\ kind.v = Asr THEN 1 ELSE 0,
                      IF StartsWith(lang.v, En) THEN 0 ELSE 1>>)

\* the keys of the items, in order, or the first exception
RECURSIVE sort_keys(_)
sort_keys(items) ==
    IF items = <<>> THEN PyList(<<>>)
    ELSE LET k == sort_key(Head(items))
         IN  IF IsRaise(k) THEN k
             ELSE LET rest == sort_keys(Tail(items))
                  IN  IF IsRaise(rest) THEN rest ELSE PyList(<<k.v>> \o rest.v)

\* tuple comparison a < b
KeyLess(a, b) == a[1] < b[1] \/ (a[1] = b[1] /\ a[2] < b[2])

\* sorted(): place item n after every item already placed whose key is not
\* greater (a stable sort); `order` holds positions of the input
RECURSIVE insert_stable(_, _, _)
insert_stable(order, n, keys) ==
    IF order = <<>> THEN <<n>>
    ELSE IF KeyLess(keys[n], keys[Head(order)]) THEN <<n>> \o order
    ELSE <<Head(order)>> \o insert_stable(Tail(order), n, keys)

RECURSIVE sorted_order(_, _)
sorted_order(keys, n) ==
    IF n = 0 THEN <<>> ELSE insert_stable(sorted_order(keys, n - 1), n, keys)

get_caption_tracks(player_response) ==
    LET captions == Get(player_response, "captions", EmptyDict)
        renderer == Get(captions, "playerCaptionsTracklistRenderer", EmptyDict)
        found == Get(renderer, "captionTracks", EmptyList)
        it == Iter(found)
    IN  IF IsRaise(it) THEN it
        ELSE LET keys == sort_keys(it.v)
             IN  IF IsRaise(keys) THEN keys
                 ELSE LET order == sorted_order(keys.v, Len(it.v))
                      IN  PyList([i \in 1..Len(order) |-> it.v[order[i]]])

-----------------------------------------------------------------------------
(* Inputs of the decoders: documents built from the shape of each place    *)

\* a value of the wrong type for a place
Bad(kind) ==
    CASE kind = "null" -> PyNone
      [] kind = "str" -> PyStr(<<"a", "b">>)
      [] kind = "int" -> PyInt(5)
      [] kind = "list" -> PyList(<<PyInt(1)>>)
      [] kind = "dict" -> PyDict("a" :> PyInt(1))
      [] kind = "emptylist" -> EmptyList
      [] kind = "emptydict" -> EmptyDict

BadKinds == {"null", "str", "int", "list", "dict"}

\* the value of an offset field (tStartMs, dDurationMs, startMs, durationMs)
OffsetKinds == {"missing", "null", "pos", "zero", "neg", "numstr", "negstr", "badstr", "list"}
Offset(kind) ==
    CASE kind = "null" -> PyNone
      [] kind = "pos" -> PyInt(1000)
      [] kind = "zero" -> PyInt(0)
      [] kind = "neg" -> PyInt(-500)
      [] kind = "numstr" -> PyStr(<<"1", "2", "0">>)
      [] kind = "negstr" -> PyStr(<<"-", "7">>)
      [] kind = "badstr" -> PyStr(<<"a", "b">>)
      [] kind = "list" -> PyList(<<PyInt(1)>>)

\* a dict with the offset fields that are present
WithOffsets(base, kstart, st, kdur, du) ==
    PyDict([k \in DOMAIN base \cup (IF st = "missing" THEN {} ELSE {kstart})
                              \cup (IF du = "missing" THEN {} ELSE {kdur}) |->
            IF k \in DOMAIN base THEN base[k]
            ELSE IF k = kstart THEN Offset(st) ELSE Offset(du)])

\* segs of a compact event
SegsKinds == {"missing", "text", "blank", "u8int", "u8null", "u8missing", "segnull",
              "emptylist"} \cup BadKinds
Segs(kind) ==
    CASE kind = "text" -> PyList(<<PyDict("utf8" :> PyStr(<<"H", "i", " ">>)),
                                   PyDict("utf8" :> PyStr(<<" ", "y", "o", "u", "\n">>))>>)
      [] kind = "blank" -> PyList(<<PyDict("utf8" :> PyStr(<<" ", "\n">>))>>)
      [] kind = "u8int" -> PyList(<<PyDict("utf8" :> PyInt(5))>>)
      [] kind = "u8null" -> PyList(<<PyDict("utf8" :> PyNone)>>)
      [] kind = "u8missing" -> PyList(<<EmptyDict>>)
      [] kind = "segnull" -> PyList(<<PyNone>>)
      [] kind = "emptylist" -> EmptyList
      [] OTHER -> Bad(kind)

Json3Event(sg, st, du) ==
    WithOffsets(IF sg = "missing" THEN [k \in {} |-> PyNone] ELSE "segs" :> Segs(sg),
                "tStartMs", st, "dDurationMs", du)

GoodEvent == Json3Event("text", "pos", "pos")

EventsKinds == {"missing", "one", "two", "evnull", "evstr", "emptylist"} \cup BadKinds
Json3Events(ev, sg, st, du) ==
    CASE ev = "one" -> PyList(<<Json3Event(sg, st, du)>>)
      [] ev = "two" -> PyList(<<GoodEvent, Json3Event(sg, st, du)>>)
      [] ev = "evnull" -> PyList(<<PyNone>>)
      [] ev = "evstr" -> PyList(<<PyStr(<<"a">>)>>)
      [] ev = "emptylist" -> EmptyList
      [] OTHER -> Bad(ev)

TopKinds == {"notjson", "obj", "emptydict"} \cup BadKinds
Json3Doc(top, ev, sg, st, du) ==
    CASE top = "notjson" -> NotJson
      [] top = "obj" -> IF ev = "missing" THEN PyDict("other" :> PyInt(1))
                        ELSE PyDict("events" :> Json3Events(ev, sg, st, du))
      [] top = "emptydict" -> EmptyDict
      [] OTHER -> Bad(top)

\* a response body as text: what json.loads makes of it, and what the
\* <text> element pattern finds in it
Body(json, xml) == [json |-> json, xml |-> xml]

StartLits == {"absent", "1.5", "0", "-1.5", "inf", "nan", "abc"}
DurLits == {"absent", "2.0", "-2", "inf", "abc"}
XmlBodies == {<<"H", "i", " ", " ", "&amp;", "\n">>, <<" ", "\n">>, <<>>}
XmlItems == {[kind |-> "junk", start |-> "absent", dur |-> "absent", body |-> <<>>]}
            \cup [kind : {"text"}, start : StartLits, dur : DurLits, body : XmlBodies]

MaxXmlItems == 2
XmlTexts == UNION {[1..n -> XmlItems] : n \in 0..MaxXmlItems}

\* the youtubei get_transcript response
RunsKinds == {"missing", "text", "blank", "textint", "textnull", "textmissing", "runnull",
              "emptylist"} \cup BadKinds
Runs(kind) ==
    CASE kind = "text" -> PyList(<<PyDict("text" :> PyStr(<<"H", "i", " ">>)),
                                   PyDict("text" :> PyStr(<<" ", "y", "o", "u", "\n">>))>>)
      [] kind = "blank" -> PyList(<<PyDict("text" :> PyStr(<<" ", "\n">>))>>)
      [] kind = "textint" -> PyList(<<PyDict("text" :> PyInt(5))>>)
      [] kind = "textnull" -> PyList(<<PyDict("text" :> PyNone)>>)
      [] kind = "textmissing" -> PyList(<<EmptyDict>>)
      [] kind = "runnull" -> PyList(<<PyNone>>)
      [] kind = "emptylist" -> EmptyList
      [] OTHER -> Bad(kind)

YtSegment(rn, st, du) ==
    PyDict("transcriptSegmentRenderer" :>
        WithOffsets(IF rn = "missing" THEN [k \in {} |-> PyNone]
                    ELSE "snippet" :> PyDict("runs" :> Runs(rn)),
                    "startMs", st, "durationMs", du))

\* the keys from actions[0] down to the segment list (lines 348-355)
YtPath == <<"updateEngagementPanelAction", "content", "transcriptRenderer", "content",
            "transcriptSearchPanelRenderer", "body", "transcriptSegmentListRenderer",
            "initialSegments">>

\* the value under YtPath[i]; the place `lvl` holds a value of kind `bad`
RECURSIVE YtNest(_, _, _, _)
YtNest(i, lvl, bad, leaf) ==
    IF i = lvl THEN Bad(bad)
    ELSE IF i = Len(YtPath) THEN leaf
    ELSE PyDict(YtPath[i + 1] :> YtNest(i + 1, lvl, bad, leaf))

ActionsKinds == {"missing", "ok", "itemnull", "itemstr", "emptylist"} \cup BadKinds
YtActions(ac, lvl, bad, leaf) ==
    CASE ac = "ok" -> PyList(<<PyDict(YtPath[1] :> YtNest(1, lvl, bad, leaf))>>)
      [] ac = "itemnull" -> PyList(<<PyNone>>)
      [] ac = "itemstr" -> PyList(<<PyStr(<<"a">>)>>)
      [] ac = "emptylist" -> EmptyList
      [] OTHER -> Bad(ac)

YtTopKinds == {"obj", "emptydict"} \cup BadKinds
YtDoc(top, ac, lvl, bad, rn, st, du) ==
    CASE top = "obj" ->
            IF ac = "missing" THEN PyDict("other" :> PyInt(1))
            ELSE PyDict("actions" :> YtActions(ac, lvl, bad, PyList(<<YtSegment(rn, st, du)>>)))
      [] top = "emptydict" -> EmptyDict
      [] OTHER -> Bad(top)

-----------------------------------------------------------------------------
(* Outside a run of main *)

\* before the watch page is fetched (line 449) there is no page
NoPage == [got |-> FALSE]

MainIdle ==
    /\ pc = "idle"
    /\ args = [url |-> "none", timeout |-> 0, mode |-> "plain"]
    /\ video_id = PyNone
    /\ html = NoPage
    /\ title = PyNone
    /\ segments = PyNone
    /\ source = "none"
    /\ tracks = <<>>
    /\ idx = 0
    /\ tried = <<>>
    /\ calls = <<>>
    /\ stdout = <<>>
    /\ stderr = <<>>
    /\ exit_code = -1
    /\ escaped = "none"

-----------------------------------------------------------------------------
(* The decoders applied to every document of the input sets *)

\* a place below a place of the wrong shape is not part of the document
Json3Shape(top, ev, sg, st, du) ==
    /\ top # "obj" => ev = "missing"
    /\ ev \notin {"one", "two"} => sg = "missing" /\ st = "missing" /\ du = "missing"

YtShape(top, ac, lvl, bad, rn, st, du) ==
    /\ top # "obj" => ac = "missing"
    /\ ac # "ok" => lvl = 0
    /\ lvl = 0 => bad = "null"
    /\ lvl # 0 => rn = "missing" /\ st = "missing" /\ du = "missing"

InitParse ==
    /\ MainIdle
    /\ fn = "none"
    /\ ret = PyNone
    /\ \/ \E top \in TopKinds, ev \in EventsKinds, sg \in SegsKinds,
             st \in OffsetKinds, du \in OffsetKinds :
             /\ Json3Shape(top, ev, sg, st, du)
             /\ arg = [dec |-> "json3", text |-> Body(Json3Doc(top, ev, sg, st, du), <<>>)]
       \/ \E x \in XmlTexts : arg = [dec |-> "xml", text |-> Body(NotJson, x)]
       \/ \E top \in YtTopKinds, ac \in ActionsKinds, lvl \in 0..Len(YtPath),
             bad \in BadKinds, rn \in RunsKinds, st \in OffsetKinds, du \in OffsetKinds :
             /\ YtShape(top, ac, lvl, bad, rn, st, du)
             /\ arg = [dec |-> "youtubei", data |-> YtDoc(top, ac, lvl, bad, rn, st, du)]

call_parse_json3_transcript ==
    /\ fn = "none" /\ arg.dec = "json3"
    /\ fn' = "parse_json3_transcript"
    /\ ret' = parse_json3_transcript(arg.text)
    /\ UNCHANGED <<arg, mainvars>>

call_parse_xml_transcript ==
    /\ fn = "none" /\ arg.dec = "xml"
    /\ fn' = "parse_xml_transcript"
    /\ ret' = parse_xml_transcript(arg.text)
    /\ UNCHANGED <<arg, mainvars>>

call_parse_youtubei_response ==
    /\ fn = "none" /\ arg.dec = "youtubei"
    /\ fn' = "parse_youtubei_response"
    /\ ret' = parse_youtubei_response(arg.data)
    /\ UNCHANGED <<arg, mainvars>>

NextParse ==
    \/ call_parse_json3_transcript
    \/ call_parse_xml_transcript
    \/ call_parse_youtubei_response

SpecParse == InitParse /\ [][NextParse]_vars


-----------------------------------------------------------------------------
(* Claims about the decoders *)

Decoders == {"parse_json3_transcript", "parse_xml_transcript", "parse_youtubei_response"}

SegmentOk(s) ==
    /\ s.text # <<>>
    /\ "end_ms" \in DOMAIN s => "start_ms" \in DOMAIN s
    /\ "start_ms" \in DOMAIN s => s.start_ms >= 0
    /\ "end_ms" \in DOMAIN s => s.end_ms >= s.start_ms

\* C7: every segment a decoder produces has non-empty text, has a start
\* offset whenever it has an end offset, has a non-negative start offset
\* and an end offset not before the start offset.
C7_SegmentInvariant ==
    (fn \in Decoders /\ ret.t = "list") =>
        \A i \in 1..Len(ret.v) : SegmentOk(ret.v[i])

\* C8: parse_json3_transcript and parse_xml_transcript return a non-empty
\* list of segments or None for every input text, and never raise.
C8_ParsersTotal ==
    fn \in {"parse_json3_transcript", "parse_xml_transcript"} =>
        \/ ret.t = "none"
        \/ ret.t = "list" /\ ret.v # <<>>


-----------------------------------------------------------------------------
(* The extractor applied to page texts.  A page is a concatenation of at   *)
(* most MaxChunks fragments of page source.                                *)

PageChunks ==
  << <<"y", "t", "I", "n", "i", "t", "i", "a", "l", "P", "l", "a", "y", "e", "r", "R", "e", "s", "p", "o", "n", "s", "e">>,
     <<"=">>,
     <<"y", "t", "c", "f", "g", ".", "s", "e", "t", "(">>,
     <<"{">>,
     <<"}">>,
     <<"{", "}">>,
     <<"{", "\"", "a", "\"", ":">>,
     <<"\"", "\\", "\"", "}", "\"">>,
     <<"\"", "i", "t", "'", "s", "\"">>,
     <<"1">>,
     <<"\"">> >>

MaxChunks == 4

RECURSIVE Flatten(_)
Flatten(ids) == IF ids = <<>> THEN <<>> ELSE PageChunks[Head(ids)] \o Flatten(Tail(ids))

\* the positions of the page where a fragment starts
Boundaries(ids) == {Len(Flatten(SubSeq(ids, 1, k))) : k \in 0..Len(ids)}

InitScan ==
    /\ MainIdle
    /\ fn = "none"
    /\ ret = PyNone
    /\ \E n \in 0..MaxChunks : \E ids \in [1..n -> 1..Len(PageChunks)] :
          arg = [chunks |-> ids, page |-> Flatten(ids), start_at |-> 0]

call_extract_balanced_json ==
    /\ fn = "none"
    /\ \E at \in Boundaries(arg.chunks) :
          /\ arg' = [arg EXCEPT !.start_at = at]
          /\ ret' = extract_balanced_json(arg.page, at)
    /\ fn' = "extract_balanced_json"
    /\ UNCHANGED mainvars

call_extract_initial_player_response ==
    /\ fn = "none"
    /\ fn' = "extract_initial_player_response"
    /\ ret' = extract_initial_player_response(arg.page)
    /\ UNCHANGED <<arg, mainvars>>

call_extract_bootstrap_config ==
    /\ fn = "none"
    /\ fn' = "extract_bootstrap_config"
    /\ ret' = extract_bootstrap_config(arg.page)
    /\ UNCHANGED <<arg, mainvars>>

NextScan ==
    \/ call_extract_balanced_json
    \/ call_extract_initial_player_response
    \/ call_extract_bootstrap_config

SpecScan == InitScan /\ [][NextScan]_vars

-----------------------------------------------------------------------------
(* Claims about the extractor *)

\* The scanner the specification describes: states normal, in-double-quote,
\* in-single-quote, escaped; q is "" outside a string, else the quote that
\* opened it.  The position after the matching brace, or -1.
RECURSIVE RefScan(_, _, _, _, _)
RefScan(text, i, depth, q, escaped_ch) ==
    IF i >= Len(text) THEN -1
    ELSE LET ch == At(text, i)
         IN  IF q # "" THEN
                 IF escaped_ch THEN RefScan(text, i + 1, depth, q, FALSE)
                 ELSE IF ch = "\\" THEN RefScan(text, i + 1, depth, q, TRUE)
                 ELSE IF ch = q THEN RefScan(text, i + 1, depth, "", FALSE)
                 ELSE RefScan(text, i + 1, depth, q, FALSE)
             ELSE IF ch \in {"\"", "'"} THEN RefScan(text, i + 1, depth, ch, FALSE)
             ELSE IF ch = "{" THEN RefScan(text, i + 1, depth + 1, "", FALSE)
             ELSE IF ch = "}" THEN
                  (IF depth = 1 THEN i + 1 ELSE RefScan(text, i + 1, depth - 1, "", FALSE))
             ELSE RefScan(text, i + 1, depth, "", FALSE)

\* the object from the first "{" at or after `from` to its matching "}",
\* as a string, or None
RefObject(text, from) ==
    LET start == FindSub(text, <<"{">>, from)
        stop == IF start < 0 THEN -1 ELSE RefScan(text, start, 0, "", FALSE)
    IN  IF stop < 0 THEN PyNone ELSE PyStr(SubSeq(text, start + 1, stop))

\* C4: where the start position is followed by a brace-delimited object,
\* extract_balanced_json returns exactly the text from the first "{" to its
\* matching "}", a string ending only at the quote of the kind that opened it.
C4_BraceBalance ==
    (fn = "extract_balanced_json" /\ RefObject(arg.page, arg.start_at).t = "str") =>
        /\ ret.t = "str"
        /\ ret.v = RefObject(arg.page, arg.start_at).v

\* no object to read at or after `from`: no "{", or one that never returns
\* to depth zero, or a balanced text that is not JSON
NoObjectAt(text, from) ==
    LET o == RefObject(text, from)
    IN  o.t = "none" \/ ~json_valid(o.v)

PlayerMarkerAt(text) == FindSub(text, PlayerToken, 0)

\* C5: each extractor returns None, without raising, whenever the marker is
\* absent, or the first "{" after the marker never returns to depth zero, or
\* the balanced text is not JSON.
C5_NotFound ==
    /\ fn = "extract_initial_player_response" =>
          ((PlayerMarkerAt(arg.page) < 0 \/ NoObjectAt(arg.page, PlayerMarkerAt(arg.page)))
              => ret = PyNone)
    /\ fn = "extract_bootstrap_config" =>
          ((ytcfg_search(arg.page) < 0 \/ NoObjectAt(arg.page, ytcfg_search(arg.page)))
              => ret = PyNone)

-----------------------------------------------------------------------------
(* The resolver applied to URLs *)

HostParts ==
  << <<"y", "o", "u", "t", "u", ".", "b", "e">>,
     <<"y", "o", "u", "t", "u", "b", "e", ".", "c", "o", "m">>,
     <<"w", "w", "w", ".">>,
     <<"m", ".">>,
     <<"n", "o", "t">>,
     <<".", "e", "v", "i", "l", ".", "o", "r", "g">>,
     <<"e", "x", "a", "m", "p", "l", "e", ".", "c", "o", "m">> >>
PathParts ==
  << <<"/", "w", "a", "t", "c", "h">>,
     <<"/", "s", "h", "o", "r", "t", "s", "/">>,
     <<"/", "l", "i", "v", "e", "/">>,
     <<"/", "e", "m", "b", "e", "d", "/">>,
     <<"/", "v", "/">>,
     <<"/">>,
     <<"a", "b", "c">>,
     <<"x", "y">> >>
QueryPairs == [name : {"v", "t"}, value : {<<>>, <<"a", "b", "c">>, <<"x", "y">>}]

MaxPathParts == 3
MaxQueryPairs == 1

RECURSIVE Concat(_, _)
Concat(parts, ids) == IF ids = <<>> THEN <<>> ELSE parts[Head(ids)] \o Concat(parts, Tail(ids))

\* youtu.be, youtube.com, www.youtube.com, m.youtube.com, notyoutube.com,
\* youtube.com.evil.org, example.com, www.youtu.be, and no hostname
HostShapes == {<<1>>, <<2>>, <<3, 2>>, <<4, 2>>, <<5, 2>>, <<2, 6>>, <<7>>, <<3, 1>>, <<>>}

Hosts == {Concat(HostParts, ids) : ids \in HostShapes}
\* the path of a URL with a host is empty or starts with "/"
Paths == {Concat(PathParts, ids) :
            ids \in {p \in UNION {[1..n -> 1..Len(PathParts)] : n \in 0..MaxPathParts} :
                        p = <<>> \/ Head(PathParts[p[1]]) = "/"}}
Queries == UNION {[1..n -> QueryPairs] : n \in 0..MaxQueryPairs}

InitVid ==
    /\ MainIdle
    /\ fn = "none"
    /\ ret = PyNone
    /\ arg \in [host : Hosts, path : Paths, query : Queries]

call_extract_video_id ==
    /\ fn = "none"
    /\ fn' = "extract_video_id"
    /\ ret' = extract_video_id(arg)
    /\ UNCHANGED <<arg, mainvars>>

NextVid == call_extract_video_id

SpecVid == InitVid /\ [][NextVid]_vars

\* the recognized host or one of its subdomains
RecognizedHost(host) == host = YoutubeCom \/ EndsWith(host, <<".">> \o YoutubeCom)

\* the identifier token the claim expects, <<>> when the URL has none
ExpectedId(url) ==
    IF url.host = YoutuBe THEN FirstPart(StripSlash(url.path))
    ELSE IF ~RecognizedHost(url.host) THEN <<>>
    ELSE IF url.path = WatchPath THEN
         (IF query_v(url.query).t = "str" THEN query_v(url.query).v ELSE <<>>)
    ELSE IF \E k \in 1..Len(IdPrefixes) : StartsWith(url.path, IdPrefixes[k]) THEN
         LET k == CHOOSE k \in 1..Len(IdPrefixes) : StartsWith(url.path, IdPrefixes[k])
         IN  FirstPart(SubSeq(url.path, Len(IdPrefixes[k]) + 1, Len(url.path)))
    ELSE <<>>

\* C9: extract_video_id returns the identifier token of a URL on the
\* recognized host (or a subdomain of it) with a known path shape, or on the
\* short domain, and no identifier for every other URL; "no identifier" is
\* None or the empty token, which main treats alike.
C9_Resolver ==
    fn = "extract_video_id" =>
        IF ExpectedId(arg) = <<>> THEN ~Truthy(ret)
        ELSE ret = PyStr(ExpectedId(arg))

-----------------------------------------------------------------------------
(* The catalog applied to lists of caption tracks *)

TrackShapes == [kind : {"asr", "manual"}, lang : {"en", "en-US", "de", "fr"},
                url : {"u1", "u2"}]

LangCode(l) ==
    CASE l = "en" -> En
      [] l = "en-US" -> <<"e", "n", "-", "U", "S">>
      [] l = "de" -> <<"d", "e">>
      [] l = "fr" -> <<"f", "r">>

\* the format parameter of a caption URL, as line 287 looks for it
FmtParam == <<"&", "f", "m", "t", "=">>

\* the text of a track address: "u1" has one query parameter, "u2" has a
\* format parameter after it
UrlText(u) == IF u = "u2" THEN <<u>> \o FmtParam \o <<"s", "r", "v", "3">> ELSE <<u>>

\* a captionTracks item; a manual track has no "kind".  The address is a
\* sequence of symbols: the first ("u1", "u2") stands for a well-formed
\* http(s) URL up to and including its first query parameter, one the URL
\* library accepts, so that a request for it is really issued; the others
\* are the characters that follow.
Track(sh) ==
    PyDict([k \in {"baseUrl", "languageCode"} \cup (IF sh.kind = "asr" THEN {"kind"} ELSE {})
            |-> IF k = "baseUrl" THEN PyStr(UrlText(sh.url))
                ELSE IF k = "languageCode" THEN PyStr(LangCode(sh.lang))
                ELSE PyStr(Asr)])

PlayerResponse(found) ==
    PyDict("captions" :> PyDict("playerCaptionsTracklistRenderer" :>
        PyDict("captionTracks" :> found)))

MaxTracks == 3

InitRank ==
    /\ MainIdle
    /\ fn = "none"
    /\ ret = PyNone
    /\ \E n \in 0..MaxTracks : \E shs \in [1..n -> TrackShapes] :
          arg = [shapes |-> shs,
                 player_response |-> PlayerResponse(PyList([i \in 1..n |-> Track(shs[i])]))]

call_get_caption_tracks ==
    /\ fn = "none"
    /\ fn' = "get_caption_tracks"
    /\ ret' = get_caption_tracks(arg.player_response)
    /\ UNCHANGED <<arg, mainvars>>

NextRank == call_get_caption_tracks

SpecRank == InitRank /\ [][NextRank]_vars

\* the class of a track in the ranking: manual before automatic, and within
\* a kind English before the other languages
RankClass(sh) ==
    <<IF sh.kind = "asr" THEN 1 ELSE 0, IF sh.lang \in {"en", "en-US"} THEN 0 ELSE 1>>

Injective(p) == \A i, j \in DOMAIN p : p[i] = p[j] => i = j

\* C6: get_caption_tracks returns a permutation of its input in which every
\* manual track precedes every automatic track, within a kind every English
\* track precedes every other track, and tracks of the same kind and the same
\* English/non-English status keep their input order.
C6_Ranking ==
    fn = "get_caption_tracks" =>
        LET n == Len(arg.shapes)
        IN  /\ ret.t = "list" /\ Len(ret.v) = n
            /\ \E p \in [1..n -> 1..n] :
                  /\ Injective(p)
                  /\ \A i \in 1..n : ret.v[i] = Track(arg.shapes[p[i]])
                  /\ \A i, j \in 1..n :
                        i < j => ~KeyLess(RankClass(arg.shapes[p[j]]), RankClass(arg.shapes[p[i]]))
                  /\ \A i, j \in 1..n :
                        (i < j /\ RankClass(arg.shapes[p[i]]) = RankClass(arg.shapes[p[j]]))
                            => p[i] < p[j]

\* the catalog (automatic, manual German, manual English) ranked as manual
\* English, manual German, automatic
C6_Witness ==
    /\ fn = "get_caption_tracks"
    /\ Len(arg.shapes) = 3
    /\ arg.shapes[1].kind = "asr"
    /\ arg.shapes[2].kind = "manual" /\ arg.shapes[2].lang = "de"
    /\ arg.shapes[3].kind = "manual" /\ arg.shapes[3].lang = "en"
    /\ ret.t = "list"
    /\ ret.v = <<Track(arg.shapes[3]), Track(arg.shapes[2]), Track(arg.shapes[1])>>
    /\ arg.shapes[2] # arg.shapes[3]


-----------------------------------------------------------------------------
(* Network.  A reply is a transport error (connection failure, timeout,    *)
(* non-2xx status: urlopen raises) or a response body.                     *)

TransportError == [ok |-> FALSE, body |-> Body(NotJson, <<>>)]
Reply(body) == [ok |-> TRUE, body |-> body]

DefaultTimeout == 10

\* json.loads gave `data`, or raised (lines 85-88)
json_or_none(data) == IF IsRaise(data) THEN PyNone ELSE data

\* fetch_json, lines 82-88: any exception gives None
fetch_json(reply) ==
    IF ~reply.ok THEN PyNone ELSE json_or_none(json_loads(reply.body))

Call(kind, url, timeout) == [kind |-> kind, url |-> url, timeout |-> timeout]

\* the text after the leading characters other than "&"
RECURSIVE skip_value(_)
skip_value(s) == IF s # <<>> /\ Head(s) # "&" THEN skip_value(Tail(s)) ELSE s

\* a variant of remove_fmt that leaves the address as it is
remove_fmt_keep(s) == s

\* re.sub(r"&fmt=[^&]+", "", base_url), line 287: every "&fmt=" that is
\* followed by at least one character other than "&" is removed with these
\* characters
RECURSIVE remove_fmt(_)
remove_fmt(s) ==
    IF s = <<>> THEN <<>>
    ELSE IF StartsWith(s, FmtParam) /\ Len(s) > Len(FmtParam) /\ s[Len(FmtParam) + 1] # "&"
    THEN remove_fmt(skip_value(SubSeq(s, Len(FmtParam) + 1, Len(s))))
    ELSE <<Head(s)>> \o remove_fmt(Tail(s))

\* the two requests of download_caption_track.  The first (lines 274-279)
\* asks for the track's URL with the query parameters fmt=json3 and alt=json
\* set; the log keeps with it whether the attempt yielded segments.  The
\* second (lines 287-288) asks for the URL that re.sub leaves, with no
\* parameter set.
Json3Call(base_url, yielded) ==
    [kind |-> "caption", url |-> [base |-> base_url.v, fmt |-> "json3"],
     timeout |-> DefaultTimeout, yielded |-> yielded]
FallbackCall(base_url) ==
    Call("caption", [base |-> remove_fmt(base_url.v), fmt |-> "none"], DefaultTimeout)

\* lines 286-295: the fallback, from what its two parsers give
fallback_result(again, x) ==
    IF IsRaise(again) THEN PyNone
    ELSE IF Truthy(again) THEN again
    ELSE IF IsRaise(x) THEN PyNone ELSE x

\* lines 286-295
fallback(reply2) ==
    IF ~reply2.ok THEN PyNone
    ELSE fallback_result(parse_json3_transcript(reply2.body), parse_xml_transcript(reply2.body))

\* a variant of after_json3 that asks for the fallback whatever the json3
\* attempt gave
after_json3_always_fallback(first, base_url, reply2) ==
    [ret |-> IF ~IsRaise(first) /\ Truthy(first) THEN first ELSE fallback(reply2),
     calls |-> <<Json3Call(base_url, ~IsRaise(first) /\ Truthy(first)), FallbackCall(base_url)>>]

\* lines 280-295: after the json3 attempt gave `first` (an exception is
\* swallowed at 283-284)
after_json3(first, base_url, reply2) ==
    IF ~IsRaise(first) /\ Truthy(first)
    THEN [ret |-> first, calls |-> <<Json3Call(base_url, TRUE)>>]
    ELSE [ret |-> fallback(reply2), calls |-> <<Json3Call(base_url, FALSE), FallbackCall(base_url)>>]

\* download_caption_track: the result and the calls issued, given the
\* replies to the json3 request and to the fallback request
download_caption_track(base_url, reply1, reply2) ==
    IF base_url.t # "str" THEN [ret |-> PyNone, calls |-> <<>>]
    ELSE after_json3(IF reply1.ok THEN parse_json3_transcript(reply1.body) ELSE PyNone,
                     base_url, reply2)

-----------------------------------------------------------------------------
(* The watch page.  A page is represented by what the scrapers find in it: *)
(* title (the "title" pattern matches), config (extract_bootstrap_config), *)
(* params (extract_transcript_params), player                              *)
(* (extract_initial_player_response), api_key (extract_innertube_api_key). *)

ClientWord == <<"c", "l", "i", "e", "n", "t">>

ContextKinds == {"missing", "ok", "noclient", "clientnull", "strclient", "str", "listclient"}
Context(kind) ==
    CASE kind = "ok" -> PyDict("client" :> PyDict("hl" :> PyStr(En)))
      [] kind = "noclient" -> PyDict("user" :> EmptyDict)
      [] kind = "clientnull" -> PyDict("client" :> PyNone)
      [] kind = "strclient" -> PyStr(<<"a">> \o ClientWord)
      [] kind = "str" -> PyStr(<<"a", "b">>)
      [] kind = "listclient" -> PyList(<<PyStr(ClientWord)>>)

\* the bootstrap config: None, or a dict with or without the API key and
\* with a context of the given kind
Config(found, key, ctx) ==
    IF ~found THEN PyNone
    ELSE PyDict([k \in {"VISITOR_DATA"} \cup (IF key THEN {"INNERTUBE_API_KEY"} ELSE {})
                        \cup (IF ctx = "missing" THEN {} ELSE {"INNERTUBE_CONTEXT"}) |->
                 IF k = "INNERTUBE_CONTEXT" THEN Context(ctx) ELSE PyStr(<<"k">>)])

PlayerKinds == {"none", "empty", "two", "nourl", "captionsnull", "langnull", "notracks"}
Player(kind) ==
    CASE kind = "none" -> PyNone
      [] kind = "empty" -> EmptyDict
      [] kind = "two" ->
            PlayerResponse(PyList(<<Track([kind |-> "asr", lang |-> "en", url |-> "u1"]),
                                    Track([kind |-> "manual", lang |-> "de", url |-> "u2"])>>))
      [] kind = "nourl" ->
            PlayerResponse(PyList(<<PyDict("languageCode" :> PyStr(En)),
                                    PyDict("languageCode" :> PyStr(En) @@ "url" :> PyStr(<<"u3">>))>>))
      [] kind = "captionsnull" -> PyDict("captions" :> PyNone)
      [] kind = "langnull" -> PlayerResponse(PyList(<<PyDict("languageCode" :> PyNone)>>))
      [] kind = "notracks" -> PyDict("videoDetails" :> EmptyDict)

Page(ti, found, key, ctx, pa, pl, ak) ==
    [got |-> TRUE,
     title |-> IF ti THEN PyStr(<<"T">>) ELSE PyNone,
     config |-> Config(found, key, ctx),
     params |-> IF pa THEN PyStr(<<"p">>) ELSE PyNone,
     player |-> Player(pl),
     api_key |-> IF ak THEN PyStr(<<"k">>) ELSE PyNone]

\* a config that was not found has no further places
PageShape(found, key, ctx) == ~found => (~key /\ ctx = "missing")

\* "client" in context
contains_client(context) ==
    CASE context.t = "dict" -> "client" \in DOMAIN context.v
      [] context.t = "str" -> FindSub(context.v, ClientWord, 0) >= 0
      [] context.t = "list" ->
            \E i \in 1..Len(context.v) : context.v[i].t = "str" /\ context.v[i].v = ClientWord
      [] OTHER -> FALSE

\* lines 303-313, given the three values read from the page
youtubei_checks(api_key, context, params) ==
    IF ~(Truthy(api_key) /\ Truthy(context) /\ Truthy(params)) THEN PyNone
    ELSE IF context.t \notin {"dict", "str", "list"} THEN Raise("TypeError")
    ELSE IF contains_client(context) /\ ~(context.t = "dict" /\ context.v["client"].t = "dict")
    THEN Raise("TypeError")
    ELSE [t |-> "request"]

\* try_youtubei_transcript, lines 300-328: None (return before the request),
\* an exception, or "request" (the POST is issued)
youtubei_request(page) ==
    IF ~Truthy(page.config) THEN PyNone
    ELSE youtubei_checks(Get(page.config, "INNERTUBE_API_KEY", PyNone),
                         Get(page.config, "INNERTUBE_CONTEXT", PyNone), page.params)

\* lines 335-338
youtubei_parse(data) == IF ~Truthy(data) THEN PyNone ELSE parse_youtubei_response(data)

\* try_youtubei_transcript, lines 330-338: from the reply to the result
youtubei_result(reply) == youtubei_parse(fetch_json(reply))

\* lines 405-409: None, an exception or the ranked tracks
android_tracks(data) == IF ~Truthy(data) THEN PyNone ELSE get_caption_tracks(data)

\* a or b
Or(a, b) == IF Truthy(a) THEN a ELSE b

\* track.get("baseUrl") or track.get("url")
base_url_of(track) == Or(Get(track, "baseUrl", PyNone), Get(track, "url", PyNone))

WatchUrl(id) == [endpoint |-> "https://www.youtube.com/watch", v |-> id]

-----------------------------------------------------------------------------
(* Replies and command lines of the runs *)

GoodJson3 == Body(Json3Doc("obj", "one", "text", "pos", "pos"), <<>>)
GoodXml ==
    Body(NotJson, <<[kind |-> "text", start |-> "1.5", dur |-> "2.0",
                     body |-> <<"H", "i", " ", " ", "&amp;", "\n">>]>>)

CaptionReplies ==
    << TransportError,
       Reply(GoodJson3),
       Reply(Body(Bad("list"), <<>>)),
       Reply(GoodXml),
       Reply(Body(NotJson, <<[kind |-> "text", start |-> "0", dur |-> "absent",
                              body |-> <<" ", "\n">>]>>)),
       Reply(Body(NotJson, <<[kind |-> "text", start |-> "inf", dur |-> "absent",
                              body |-> <<"H", "i", " ", " ", "&amp;", "\n">>]>>)) >>

YoutubeiReplies ==
    << TransportError,
       Reply(Body(NotJson, <<>>)),
       Reply(Body(YtDoc("obj", "ok", 0, "null", "text", "numstr", "numstr"), <<>>)),
       Reply(Body(YtDoc("obj", "missing", 0, "null", "missing", "missing", "missing"), <<>>)),
       Reply(Body(YtDoc("obj", "ok", 0, "null", "blank", "missing", "missing"), <<>>)),
       Reply(Body(YtDoc("obj", "int", 0, "null", "missing", "missing", "missing"), <<>>)),
       Reply(Body(YtDoc("list", "missing", 0, "null", "missing", "missing", "missing"), <<>>)),
       Reply(Body(YtDoc("obj", "ok", 1, "null", "missing", "missing", "missing"), <<>>)) >>

PlayerReplies ==
    << TransportError,
       Reply(Body(NotJson, <<>>)),
       Reply(Body(EmptyDict, <<>>)),
       Reply(Body(Player("two"), <<>>)),
       Reply(Body(Player("nourl"), <<>>)),
       Reply(Body(Player("notracks"), <<>>)),
       Reply(Body(Player("captionsnull"), <<>>)),
       Reply(Body(Bad("list"), <<>>)) >>

Url(host, path, query) == [host |-> host, path |-> path, query |-> query]

\* https://youtu.be/abc, https://www.youtube.com/watch?v=xy,
\* https://www.youtube.com/watch, https://example.com/watch?v=abc
MainUrls ==
    { Url(YoutuBe, <<"/", "a", "b", "c">>, <<>>),
      Url(<<"w", "w", "w", ".">> \o YoutubeCom, WatchPath, <<[name |-> "v", value |-> <<"x", "y">>]>>),
      Url(<<"w", "w", "w", ".">> \o YoutubeCom, WatchPath, <<>>),
      Url(<<"e", "x", "a", "m", "p", "l", "e", ".", "c", "o", "m">>, WatchPath, <<[name |-> "v", value |-> <<"a", "b", "c">>]>>) }

TimeoutOptions == {10, 30}
Modes == {"plain", "timestamps", "json"}

-----------------------------------------------------------------------------
(* download_caption_track on its own: a track address and the replies to   *)
(* its two requests                                                         *)

\* what an address starts with after its leading symbol
QueryHeads == {<<>>, <<"?", "v", "=", "1">>, <<"?", "f", "m", "t", "=", "a">>}

\* the query parameters that may follow
ParamTexts ==
    << FmtParam \o <<"s", "r", "v", "3">>,
       FmtParam,
       <<"&", "x", "=", "1">> >>

MaxParams == 2

\* the addresses: the leading symbol, a head, and up to MaxParams parameters
TrackUrls ==
    {<<"u1">> \o h \o Concat(ParamTexts, ids) :
        h \in QueryHeads,
        ids \in UNION {[1..n -> 1..Len(ParamTexts)] : n \in 0..MaxParams}}

\* a <text> element as the characters of a JSON string, and as the XML
\* parser sees it
TextElement ==
    <<"<", "t", "e", "x", "t", " ", "s", "t", "a", "r", "t", "=", "'", "1", ".", "5", "'", ">",
      "H", "i", "<", "/", "t", "e", "x", "t", ">">>
TextElementItem == [kind |-> "text", start |-> "1.5", dur |-> "absent", body |-> <<"H", "i">>]

\* a JSON object with one more member, a string that holds the element
WithNote(doc) == Body(PyDict(doc.v @@ ("note" :> PyStr(TextElement))), <<TextElementItem>>)

\* the replies of main, and JSON documents that hold a <text> element: one
\* with events, one with no events, and a list
TrackReplies ==
    CaptionReplies \o
    << Reply(WithNote(GoodJson3.json)),
       Reply(WithNote(PyDict("events" :> EmptyList))),
       Reply(Body(PyList(<<PyStr(TextElement)>>), <<TextElementItem>>)) >>

InitTrack ==
    /\ MainIdle
    /\ fn = "none"
    /\ ret = PyNone
    /\ \E u \in TrackUrls : \E r1, r2 \in 1..Len(TrackReplies) :
          arg = [base_url |-> PyStr(u), reply1 |-> TrackReplies[r1],
                 reply2 |-> TrackReplies[r2]]

call_download_caption_track ==
    /\ fn = "none"
    /\ fn' = "download_caption_track"
    /\ ret' = download_caption_track(arg.base_url, arg.reply1, arg.reply2)
    /\ UNCHANGED <<arg, mainvars>>

NextTrack == call_download_caption_track

SpecTrack == InitTrack /\ [][NextTrack]_vars

-----------------------------------------------------------------------------
(* main *)

Init ==
    /\ pc = "resolve"
    /\ args \in [url : MainUrls, timeout : TimeoutOptions, mode : Modes]
    /\ video_id = PyNone
    /\ html = NoPage
    /\ title = PyNone
    /\ segments = PyNone
    /\ source = "none"
    /\ tracks = <<>>
    /\ idx = 0
    /\ tried = <<>>
    /\ calls = <<>>
    /\ stdout = <<>>
    /\ stderr = <<>>
    /\ exit_code = -1
    /\ escaped = "none"
    /\ fn = "none"
    /\ arg = PyNone
    /\ ret = PyNone

\* sys.exit(code) after printing `lines` on the error stream
Exit(code, lines) ==
    /\ pc' = "exit"
    /\ exit_code' = code
    /\ stderr' = stderr \o lines

\* an exception nothing catches: the interpreter prints the traceback on
\* the error stream and exits with status 1
Uncaught(e) ==
    /\ Exit(1, <<"Traceback">>)
    /\ escaped' = e

\* lines 440-445
resolve_video_id ==
    /\ pc = "resolve"
    /\ video_id' = extract_video_id(args.url)
    /\ IF ~Truthy(video_id')
       THEN Exit(1, <<"Error: Could not extract video ID">>)
       ELSE pc' = "fetch_watch_page" /\ UNCHANGED <<exit_code, stderr>>
    /\ UNCHANGED <<args, html, title, segments, source, tracks, idx, tried, calls,
                   stdout, escaped, fn, arg, ret>>

\* a variant of watch_page_failed in which a failed fetch of the watch page
\* is not an error of the run
watch_page_failed_exit_zero ==
    /\ Exit(0, <<"Error fetching watch page">>)
    /\ UNCHANGED <<html, title>>

\* lines 450-452
watch_page_failed ==
    /\ Exit(1, <<"Error fetching watch page">>)
    /\ UNCHANGED <<html, title>>

\* lines 447-458
fetch_watch_page ==
    /\ pc = "fetch_watch_page"
    /\ calls' = Append(calls, Call("watch", WatchUrl(video_id.v), args.timeout))
    /\ \/ watch_page_failed
       \/ /\ \E ti, found, key, pa, ak \in BOOLEAN, ctx \in ContextKinds, pl \in PlayerKinds :
                /\ PageShape(found, key, ctx)
                /\ html' = Page(ti, found, key, ctx, pa, pl, ak)
          /\ title' = html'.title
          /\ pc' = "youtubei"
          /\ UNCHANGED <<exit_code, stderr>>
    /\ UNCHANGED <<args, video_id, segments, source, tracks, idx, tried, stdout,
                   escaped, fn, arg, ret>>

\* a variant of strategy_needed that enters the next strategy whatever the
\* earlier ones produced
strategy_needed_always(segs) == TRUE

\* `if not segments:` (lines 469, 483): the next strategy is entered
strategy_needed(segs) == ~Truthy(segs)

\* lines 464-466, given what try_youtubei_transcript returned or raised
youtubei_done(result) ==
    IF IsRaise(result)
    THEN Uncaught(result.e) /\ UNCHANGED <<segments, source>>
    ELSE /\ segments' = result
         /\ source' = IF Truthy(result) THEN "youtubei" ELSE source
         /\ pc' = "caption_tracks"
         /\ UNCHANGED <<exit_code, stderr, escaped>>

\* lines 464-466, given how far try_youtubei_transcript gets before the request
youtubei_step(pre) ==
    IF pre.t # "request"
    THEN youtubei_done(pre) /\ UNCHANGED calls
    ELSE \E r \in 1..Len(YoutubeiReplies) :
            /\ calls' = Append(calls, Call("get_transcript", "youtubei/v1/get_transcript",
                                           DefaultTimeout))
            /\ youtubei_done(youtubei_result(YoutubeiReplies[r]))

\* lines 464-466
try_youtubei_transcript ==
    /\ pc = "youtubei"
    /\ tried' = Append(tried, "youtubei")
    /\ youtubei_step(youtubei_request(html))
    /\ UNCHANGED <<args, video_id, html, title, tracks, idx, stdout, fn, arg, ret>>

\* lines 471-472 and 409-410: the ranked tracks, or the exception of
\* get_caption_tracks; the loop over them starts at `loop`
tracks_found(found, loop) ==
    IF IsRaise(found)
    THEN Uncaught(found.e) /\ UNCHANGED <<tracks, idx>>
    ELSE /\ tracks' = found.v
         /\ idx' = 1
         /\ pc' = loop
         /\ UNCHANGED <<exit_code, stderr, escaped>>

\* lines 469-472
caption_tracks ==
    /\ pc = "caption_tracks"
    /\ IF ~strategy_needed(segments)
       THEN /\ pc' = "android_player"
            /\ UNCHANGED <<tracks, idx, tried, exit_code, stderr, escaped>>
       ELSE /\ tried' = Append(tried, "captionTracks")
            /\ IF ~Truthy(html.player)
               THEN /\ pc' = "android_player"
                    /\ UNCHANGED <<tracks, idx, exit_code, stderr, escaped>>
               ELSE tracks_found(get_caption_tracks(html.player), "caption_track")
    /\ UNCHANGED <<args, video_id, html, title, segments, source, calls, stdout,
                   fn, arg, ret>>

\* lines 477-480 and 414-416: the download gave `d`
downloaded(d, label, after) ==
    /\ calls' = calls \o d.calls
    /\ IF Truthy(d.ret)
       THEN segments' = d.ret /\ source' = label /\ pc' = after /\ idx' = idx
       ELSE /\ segments' = IF label = "captionTracks" THEN d.ret ELSE segments
            /\ idx' = idx + 1
            /\ UNCHANGED <<pc, source>>

\* lines 474-480 and 411-416: the track at idx has the address base_url
track_step(base_url, label, after) ==
    IF ~Truthy(base_url)
    THEN /\ idx' = idx + 1
         /\ UNCHANGED <<pc, segments, source, calls>>
    ELSE \E r1, r2 \in 1..Len(CaptionReplies) :
            downloaded(download_caption_track(base_url, CaptionReplies[r1], CaptionReplies[r2]),
                       label, after)

\* one iteration of a loop over the ranked tracks (lines 473-480, 410-418):
\* `label` is the source on success, `after` the position after the loop
track_iteration(label, after) ==
    IF idx > Len(tracks)
    THEN /\ pc' = after
         /\ segments' = IF label = "captionTracks" THEN segments ELSE PyNone
         /\ UNCHANGED <<source, idx, calls>>
    ELSE track_step(base_url_of(tracks[idx]), label, after)

\* lines 473-480
caption_track ==
    /\ pc = "caption_track"
    /\ track_iteration("captionTracks", "android_player")
    /\ UNCHANGED <<args, video_id, html, title, tracks, tried, stdout, stderr,
                   exit_code, escaped, fn, arg, ret>>

\* lines 405-410, given the ranked tracks of the player reply
android_step(found) ==
    IF IsNone(found)
    THEN /\ segments' = PyNone
         /\ pc' = "finish"
         /\ UNCHANGED <<tracks, idx, exit_code, stderr, escaped>>
    ELSE tracks_found(found, "android_track") /\ UNCHANGED segments

\* lines 483-484 and 388-409
try_android_player ==
    /\ pc = "android_player"
    /\ IF ~strategy_needed(segments)
       THEN /\ pc' = "finish"
            /\ UNCHANGED <<segments, tracks, idx, tried, calls, exit_code, stderr, escaped>>
       ELSE /\ tried' = Append(tried, "android_player")
            /\ IF ~Truthy(html.api_key)
               THEN /\ segments' = PyNone
                    /\ pc' = "finish"
                    /\ UNCHANGED <<tracks, idx, calls, exit_code, stderr, escaped>>
               ELSE \E r \in 1..Len(PlayerReplies) :
                       /\ calls' = Append(calls, Call("player", "youtubei/v1/player",
                                                      DefaultTimeout))
                       /\ android_step(android_tracks(fetch_json(PlayerReplies[r])))
    /\ UNCHANGED <<args, video_id, html, title, source, stdout, fn, arg, ret>>

\* lines 410-418 and 485-486
android_track ==
    /\ pc = "android_track"
    /\ track_iteration("android_player", "finish")
    /\ UNCHANGED <<args, video_id, html, title, tracks, tried, stdout, stderr,
                   exit_code, escaped, fn, arg, ret>>

\* format_timestamp, lines 421-429: the fields printed and the form chosen
format_timestamp(ms) ==
    LET total_seconds == ms \div 1000
        hours == total_seconds \div 3600
        minutes == (total_seconds % 3600) \div 60
        seconds == total_seconds % 60
    IN  IF hours > 0
        THEN [form |-> "h:mm:ss", hours |-> hours, minutes |-> minutes, seconds |-> seconds]
        ELSE [form |-> "m:ss", hours |-> 0, minutes |-> minutes, seconds |-> seconds]

\* lines 494-510: what is printed for the segments
output(segs) ==
    IF args.mode = "json"
    THEN <<[line |-> "json", video_id |-> video_id, title |-> title,
            url |-> WatchUrl(video_id.v), source |-> source, segments |-> segs,
            text |-> [i \in 1..Len(segs) |-> segs[i].text]]>>
    ELSE IF args.mode = "timestamps"
    THEN [i \in 1..Len(segs) |->
            [line |-> "segment",
             ts |-> IF "start_ms" \in DOMAIN segs[i]
                    THEN <<format_timestamp(segs[i].start_ms)>> ELSE <<>>,
             text |-> segs[i].text]]
    ELSE <<[line |-> "title", title |-> title],
           [line |-> "text", text |-> [i \in 1..Len(segs) |-> segs[i].text]]>>

\* a variant of finish that prints the title line before it looks at the
\* segments
finish_title_first ==
    /\ pc = "finish"
    /\ IF ~Truthy(segments)
       THEN /\ stdout' = Append(stdout, [line |-> "title", title |-> title])
            /\ Exit(1, <<"Error: No transcript available for this video",
                         "The video may not have captions, or they may be restricted.">>)
       ELSE /\ stdout' = stdout \o output(segments.v)
            /\ Exit(0, <<>>)
    /\ UNCHANGED <<args, video_id, html, title, segments, source, tracks, idx, tried,
                   calls, escaped, fn, arg, ret>>

\* lines 488-510
finish ==
    /\ pc = "finish"
    /\ IF ~Truthy(segments)
       THEN /\ Exit(1, <<"Error: No transcript available for this video",
                         "The video may not have captions, or they may be restricted.">>)
            /\ UNCHANGED stdout
       ELSE /\ stdout' = stdout \o output(segments.v)
            /\ Exit(0, <<>>)
    /\ UNCHANGED <<args, video_id, html, title, segments, source, tracks, idx, tried,
                   calls, escaped, fn, arg, ret>>

Next ==
    \/ resolve_video_id
    \/ fetch_watch_page
    \/ try_youtubei_transcript
    \/ caption_tracks
    \/ caption_track
    \/ try_android_player
    \/ android_track
    \/ finish

Spec == Init /\ [][Next]_vars

-----------------------------------------------------------------------------
(* Claims about a run of main *)

Strategies == <<"youtubei", "captionTracks", "android_player">>

CallKinds == {calls[i].kind : i \in 1..Len(calls)}

\* C1: once a strategy has yielded a non-empty segment sequence no later
\* strategy is entered, no further request is issued and the result stays;
\* when the youtubei endpoint is the one that yielded it, no caption track
\* was downloaded and the ANDROID player was not asked.
C1_ShortCircuit ==
    /\ [](source = "youtubei" =>
             (tried = <<"youtubei">> /\ CallKinds \subseteq {"watch", "get_transcript"}))
    /\ [](source = "captionTracks" => "player" \notin CallKinds)
    /\ [][Truthy(segments) =>
             (tried' = tried /\ calls' = calls /\ segments' = segments /\ source' = source)]_vars

\* a run in which the youtubei endpoint yielded the transcript and that
\* has printed it
C1_Witness ==
    /\ pc = "exit"
    /\ exit_code = 0
    /\ source = "youtubei"
    /\ Truthy(segments)
    /\ stdout # <<>>

\* every strategy was entered and none yielded segments
Exhausted ==
    /\ pc = "exit"
    /\ tried = Strategies
    /\ escaped = "none"
    /\ ~Truthy(segments)

NoTranscriptMessage ==
    <<"Error: No transcript available for this video",
      "The video may not have captions, or they may be restricted.">>

\* C2: when every strategy yields no segments the run ends reporting that no
\* transcript is available, and nothing is written to standard output.
C2_Exhaustion ==
    Exhausted => (exit_code = 1 /\ stderr = NoTranscriptMessage /\ stdout = <<>>)

\* an exhausted run in which every strategy got as far as its request
C2_Witness ==
    /\ Exhausted
    /\ {"get_transcript", "caption", "player"} \subseteq CallKinds

\* C3: no error inside a strategy escapes it: no exception leaves a
\* strategy, and a run that entered the chain and ends without segments has
\* entered every strategy.
C3_StrategyIsolation ==
    /\ escaped = "none"
    /\ (pc = "exit" /\ tried # <<>> /\ ~Truthy(segments)) => tried = Strategies

\* the conditions under which a run has ended
IdFailed == ~Truthy(video_id)
WatchFailed == Truthy(video_id) /\ ~html.got
ChainFailed == html.got /\ escaped = "none" /\ ~Truthy(segments)
Escaped == escaped # "none"

ExitsWithError == exit_code # 0 /\ stderr # <<>>

\* C10 as stated: the run exits non-zero with a message on the error stream
\* exactly when identifier resolution fails or the chain ends without a
\* transcript, and exits zero otherwise.
C10_Exit_Original ==
    pc = "exit" =>
        /\ ExitsWithError <=> (IdFailed \/ ChainFailed)
        /\ ~(IdFailed \/ ChainFailed) => exit_code = 0

\* C10 amended: the run exits non-zero with a message on the error stream
\* exactly when identifier resolution fails, the fetch of the watch page
\* fails, the chain ends without a transcript, or an exception leaves a
\* strategy; it exits zero otherwise.
C10_Exit ==
    pc = "exit" =>
        /\ ExitsWithError <=> (IdFailed \/ WatchFailed \/ ChainFailed \/ Escaped)
        /\ ~(IdFailed \/ WatchFailed \/ ChainFailed \/ Escaped) => exit_code = 0

\* a run that ended on a failed fetch of the watch page
C10_Witness ==
    /\ pc = "exit"
    /\ WatchFailed
    /\ CallKinds = {"watch"}
    /\ exit_code = 1

\* C11: every network call of a run is made with the same timeout, the one
\* given with the timeout option.
C11_UniformTimeout ==
    \A i \in 1..Len(calls) : calls[i].timeout = args.timeout

\* the requests a step adds to the log
NewCalls == SubSeq(calls', Len(calls) + 1, Len(calls'))

\* the track loops of strategy 2 (lines 469-480) and strategy 3 (410-416)
InTrackLoop == pc \in {"caption_track", "android_track"}

\* the tracks of the loop are in ranked order
Ranked(ts) ==
    \A i, j \in 1..Len(ts) : i < j => ~KeyLess(sort_key(ts[j]).v, sort_key(ts[i]).v)

\* the requests one iteration makes for the track address u: the json3
\* request first, then the fallback request only if the json3 attempt
\* yielded nothing
TrackRequests(new, u) ==
    /\ Len(new) \in {1, 2}
    /\ new[1].kind = "caption" /\ new[1].url = [base |-> u, fmt |-> "json3"]
    /\ Len(new) = 2 =>
          /\ ~new[1].yielded
          /\ new[2].kind = "caption" /\ new[2].url.fmt = "none"

\* C12: in strategies 2 and 3 the tracks are attempted in ranked order; for
\* a track the json3 request is issued before the fallback request, the
\* fallback request is issued only if the json3 attempt yielded no segments,
\* and once a track has produced segments no later track is fetched.
C12_DownloadOrder ==
    /\ [](InTrackLoop => Ranked(tracks) /\ ~Truthy(segments))
    /\ [][InTrackLoop =>
            /\ idx' \in {idx, idx + 1}
            /\ NewCalls # <<>> =>
                  /\ idx <= Len(tracks)
                  /\ TrackRequests(NewCalls, base_url_of(tracks[idx]).v)
                  /\ IF Truthy(segments') THEN pc' # pc /\ idx' = idx
                     ELSE pc' = pc /\ idx' = idx + 1
            /\ (NewCalls = <<>> /\ pc' = pc) => idx' = idx + 1]_vars
    /\ [][(Truthy(segments) /\ source \in {"captionTracks", "android_player"})
            => calls' = calls]_vars

\* a finished run of strategy 2 whose first track gave nothing to either
\* request and whose second track gave segments to its json3 request
C12_Witness ==
    /\ pc = "exit" /\ source = "captionTracks" /\ Len(tracks) = 2
    /\ \E i \in 1..Len(calls) :
          /\ i + 2 = Len(calls)
          /\ calls[i].kind = "caption" /\ calls[i].url.fmt = "json3" /\ ~calls[i].yielded
          /\ calls[i].url.base = base_url_of(tracks[1]).v
          /\ calls[i + 1].kind = "caption" /\ calls[i + 1].url.fmt = "none"
          /\ calls[i + 2].kind = "caption" /\ calls[i + 2].url.fmt = "json3"
          /\ calls[i + 2].yielded
          /\ calls[i + 2].url.base = base_url_of(tracks[2]).v

\* the parts of s that "&" separates
RECURSIVE SplitAmp(_)
SplitAmp(s) ==
    IF \A i \in 1..Len(s) : s[i] # "&" THEN <<s>>
    ELSE LET i == CHOOSE k \in 1..Len(s) : s[k] = "&" /\ \A m \in 1..(k - 1) : s[m] # "&"
         IN  <<SubSeq(s, 1, i - 1)>> \o SplitAmp(SubSeq(s, i + 1, Len(s)))

\* the parts put together again
RECURSIVE JoinAmp(_)
JoinAmp(parts) ==
    IF Len(parts) = 1 THEN parts[1]
    ELSE parts[1] \o <<"&">> \o JoinAmp(Tail(parts))

\* a part that is a format parameter with a value
IsFmtPart(p) == Len(p) > 4 /\ SubSeq(p, 1, 4) = <<"f", "m", "t", "=">>

\* the address without the format parameters that follow an "&" and have a
\* value
WithoutFmt(s) ==
    JoinAmp(<<Head(SplitAmp(s))>> \o SelectSeq(Tail(SplitAmp(s)), LAMBDA p : ~IsFmtPart(p)))

\* the fallback took place in the call of download_caption_track
FallbackMade == fn = "download_caption_track" /\ Len(ret.calls) = 2

\* what a parser produces, nothing when it raises
Produced(x) == IF IsRaise(x) THEN PyNone ELSE x

\* the segments of the fallback: those of the json3 parser when there are
\* some, else those of the XML parser; nothing when one of them raises
FallbackSegments(j, x) ==
    IF IsRaise(j) THEN PyNone
    ELSE IF Truthy(j) THEN j
    ELSE Produced(x)

\* C13 as stated: when the json3 attempt yields nothing, the fallback request
\* goes to the track's address exactly as the catalog has it, and the
\* segments returned are those the XML parser produces from the response.
C13_Fallback_Original ==
    FallbackMade =>
        /\ ret.calls[2].url.base = arg.base_url.v
        /\ arg.reply2.ok => ret.ret = Produced(parse_xml_transcript(arg.reply2.body))

\* C13: when the json3 attempt yields nothing, the fallback request goes to
\* the track's address without its "&fmt=" parameters that have a value and
\* with no parameter set; the segments returned are those the json3 parser
\* produces from the response when there are some, otherwise those the XML
\* parser produces, and nothing when the request fails or a parser raises.
C13_Fallback ==
    FallbackMade =>
        /\ ret.calls[2].url = [base |-> WithoutFmt(arg.base_url.v), fmt |-> "none"]
        /\ ret.ret = IF arg.reply2.ok
                     THEN FallbackSegments(parse_json3_transcript(arg.reply2.body),
                                           parse_xml_transcript(arg.reply2.body))
                     ELSE PyNone

\* a fallback for an address with a format parameter, answered by a
\* document the XML parser reads
C13_Witness ==
    /\ FallbackMade
    /\ arg.base_url.v # WithoutFmt(arg.base_url.v)
    /\ arg.reply2.ok
    /\ Truthy(ret.ret)
    /\ ret.ret = parse_xml_transcript(arg.reply2.body)

=============================================================================
